---------------------------- MODULE Spec2Model ----------------------------
(***************************************************************************)
(* A model of pyls/utils.py: zscore, normalize, _compute_xcorr, xcorr,     *)
(* dummy_code, reverse_dummy_code and get_seed.                            *)
(*                                                                         *)
(* Arrays live in a heap (a sequence of array objects, an address is an    *)
(* index), so that copies, fresh results and in-place stores are distinct  *)
(* things.  A number is (p / q) * sqrt(m) with m squarefree, computed in   *)
(* exact arithmetic, which is closed under every operation the code        *)
(* applies to rational input; q = 0 stands for the non-finite values (NaN, *)
(* +Inf, -Inf).  The test stdev == 0 of zscore is decided by the doubles:  *)
(* the mean of a column of one repeated entry is summed and divided with   *)
(* the rounding of IEEE 754 binary64, and what it differs from the entry   *)
(* is carried as a residue of the mean.                                    *)
(***************************************************************************)
EXTENDS Integers, Sequences, FiniteSets, TLC

VARIABLES heap, call, ret, after, gens, nprandom, handles

vars == <<heap, call, ret, after, gens, nprandom, handles>>

(***************************************************************************)
(* Bounds of the model.                                                    *)
(***************************************************************************)
MaxN == 3
MaxCells == 6
MaxTenthCells == 4
MaxLen == 5
MaxCalls == 4
MaxDraws == 3

(***************************************************************************)
(* numpy float arithmetic.  A number is (p / q) * sqrt(m) * eps^ord plus   *)
(* rnd * eps^(ord + 1): the value in exact arithmetic, and, for the mean   *)
(* of a column, the rounding residue rnd in half units in the last place,  *)
(* eps.  A sum or a difference carries the residue; where its value is 0   *)
(* the residue is what is left, and it is a value one order of eps down.   *)
(* A sum of two orders of eps is its term of the lower order, and a        *)
(* product, a quotient and a square root are those of the values.  An      *)
(* entry p / q of an input stands for the double nearest to p / q.         *)
(***************************************************************************)
Sgn(i) == IF i > 0 THEN 1 ELSE IF i < 0 THEN -1 ELSE 0

Abs(i) == IF i < 0 THEN -i ELSE i

RECURSIVE Gcd(_, _)
Gcd(a, b) == IF b = 0 THEN a ELSE Gcd(b, a % b)

\* the largest c with c * c dividing n, found by trial division from d
RECURSIVE SqPart(_, _)
SqPart(n, d) ==
    IF d * d > n THEN 1
    ELSE IF n % (d * d) = 0 THEN d * SqPart(n \div (d * d), d)
    ELSE SqPart(n, d + 1)

Num(p, q, m, o) == [p |-> p, q |-> q, m |-> m, ord |-> o, rnd |-> 0]

NaN == Num(0, 0, 1, 0)

Inf(s) == Num(s, 0, 1, 0)

\* a value outside the number system of the model (a sum of two
\* incommensurable square roots, the mean of a column of both signs); no
\* computation of the program on the inputs of the model produces it
Irr == Num(0, 0, 0, 0)

\* the number (p / q) * sqrt(m) * eps^o, q > 0, m squarefree, in lowest
\* terms
MkOrd(p, q, m, o) ==
    IF p = 0 THEN Num(0, 1, 1, 0)
    ELSE LET g == Gcd(Abs(p), q)
         IN  Num(p \div g, q \div g, m, o)

Mk(p, q, m) == MkOrd(p, q, m, 0)

R(i) == Num(i, 1, 1, 0)

IsFinite(a) == a.q > 0

\* == 0 of a double: neither a value nor a rounding residue is left
IsZero(a) == a.q > 0 /\ a.p = 0 /\ a.rnd = 0

RNeg(a) == [a EXCEPT !.p = -a.p, !.rnd = -a.rnd]

RAdd(a, b) ==
    IF a = Irr \/ b = Irr THEN Irr
    ELSE IF a = NaN \/ b = NaN THEN NaN
    ELSE IF ~IsFinite(a) THEN (IF ~IsFinite(b) /\ b.p # a.p THEN NaN ELSE a)
    ELSE IF ~IsFinite(b) THEN b
    ELSE IF IsZero(a) THEN b
    ELSE IF IsZero(b) THEN a
    ELSE IF a.m = b.m /\ a.ord = b.ord
         THEN LET s == MkOrd(a.p * b.q + b.p * a.q, a.q * b.q, a.m, a.ord)
                  u == a.rnd + b.rnd
              IN  IF s.p # 0 THEN [s EXCEPT !.rnd = u]
                  ELSE MkOrd(u, 1, 1, a.ord + 1)
    ELSE IF a.ord < b.ord THEN a
    ELSE IF b.ord < a.ord THEN b
    ELSE Irr

RSub(a, b) == RAdd(a, RNeg(b))

RMul(a, b) ==
    IF a = Irr \/ b = Irr THEN Irr
    ELSE IF a = NaN \/ b = NaN THEN NaN
    ELSE IF ~IsFinite(a) \/ ~IsFinite(b)
         THEN (IF a.p = 0 \/ b.p = 0 THEN NaN ELSE Inf(Sgn(a.p) * Sgn(b.p)))
    ELSE LET g == Gcd(a.m, b.m)
         IN  MkOrd(a.p * b.p * g, a.q * b.q, (a.m \div g) * (b.m \div g),
                   a.ord + b.ord)

\* 1 / ((p/q) sqrt(m)) = (q / (p m)) sqrt(m)
RDiv(a, b) ==
    IF a = Irr \/ b = Irr THEN Irr
    ELSE IF a = NaN \/ b = NaN THEN NaN
    ELSE IF ~IsFinite(b) THEN (IF IsFinite(a) THEN R(0) ELSE NaN)
    ELSE IF IsZero(b) THEN (IF IsZero(a) THEN NaN ELSE Inf(Sgn(a.p)))
    ELSE IF ~IsFinite(a) THEN Inf(Sgn(a.p) * Sgn(b.p))
    ELSE RMul(a, MkOrd(Sgn(b.p) * b.q, Abs(b.p) * b.m, b.m, -b.ord))

\* sqrt(p/q) = sqrt(p q) / q, and p q = c^2 m with m squarefree
RSqrt(a) ==
    IF a = Irr \/ a = NaN THEN a
    ELSE IF ~IsFinite(a) THEN (IF a.p > 0 THEN a ELSE NaN)
    ELSE IF a.p < 0 THEN NaN
    ELSE IF a.p = 0 THEN R(0)
    ELSE IF a.m # 1 \/ a.ord % 2 # 0 THEN Irr
    ELSE LET n == a.p * a.q
             c == SqPart(n, 2)
         IN  MkOrd(c, a.q, n \div (c * c), a.ord \div 2)

RAbs(a) == IF a.p < 0 THEN RNeg(a) ELSE a

\* v bound to a name: Bind(v, LAMBDA u : e) is e with u the value of v
Bind(v, F(_)) == CHOOSE r \in {F(u) : u \in {v}} : TRUE

(***************************************************************************)
(* Rounding.  A double has Precision significant bits and every operation  *)
(* rounds its exact result to the nearest double, a tie to the even one.   *)
(* A natural number is the sequence of its digits to the base 2^Chunk, the *)
(* least significant first.  The doubles of a column are counted in one    *)
(* unit, 1 / Base of the last place of the least of them.                  *)
(***************************************************************************)
Precision == 53

Chunk == 16

Base == 2 ^ Chunk

Zeros(n) == [c \in 1..n |-> 0]

Digit(a, c) == IF c <= Len(a) THEN a[c] ELSE 0

RECURSIVE Trim(_)
Trim(a) ==
    IF a = <<>> \/ a[Len(a)] # 0 THEN a ELSE Trim(SubSeq(a, 1, Len(a) - 1))

Longer(a, b) == IF Len(a) > Len(b) THEN Len(a) ELSE Len(b)

\* the carry out of digit c of a + b
RECURSIVE Carry(_, _, _)
Carry(a, b, c) ==
    IF c = 0 THEN 0
    ELSE (Digit(a, c) + Digit(b, c) + Carry(a, b, c - 1)) \div Base

BAdd(a, b) ==
    Trim([c \in 1..(Longer(a, b) + 1) |->
            (Digit(a, c) + Digit(b, c) + Carry(a, b, c - 1)) % Base])

\* (digits c and up of a) - (digits c and up of b), for a and b that are
\* close; Difference is a - b
RECURSIVE DifferenceFrom(_, _, _)
DifferenceFrom(a, b, c) ==
    IF c > Longer(a, b) THEN 0
    ELSE DifferenceFrom(a, b, c + 1) * Base + Digit(a, c) - Digit(b, c)

Difference(a, b) == DifferenceFrom(a, b, 1)

\* the remainder of (digits c and up of a) divided by a small n
RECURSIVE RemFrom(_, _, _)
RemFrom(a, n, c) ==
    IF c > Len(a) THEN 0 ELSE (RemFrom(a, n, c + 1) * Base + a[c]) % n

\* a divided by a small n, by long division: the quotient and the remainder
DivSmall(a, n) ==
    << Trim([c \in 1..Len(a) |-> (RemFrom(a, n, c + 1) * Base + a[c]) \div n]),
       RemFrom(a, n, 1) >>

\* the number of bits of the integer v, and of a
RECURSIVE BitsOf(_)
BitsOf(v) == IF v = 0 THEN 0 ELSE 1 + BitsOf(v \div 2)

BitLength(a) == (Len(a) - 1) * Chunk + BitsOf(a[Len(a)])

\* the digit of bit i, the place of bit i in its digit, and bit i of a
DigitOf(i) == (i - 1) \div Chunk + 1

PlaceOf(i) == 2 ^ ((i - 1) % Chunk)

BitAt(a, i) == (Digit(a, DigitOf(i)) \div PlaceOf(i)) % 2

\* a, or a and a fraction below its last bit where inexact holds, rounded
\* to Precision significant bits: the d bits below them are dropped, and
\* one is added in the last place kept where the dropped part is above a
\* half, or is a half and the last place kept is odd
RoundToDouble(a, inexact) ==
    LET d == BitLength(a) - Precision
        up == /\ BitAt(a, d) = 1
              /\ \/ inexact
                 \/ \E i \in 1..(d - 1) : BitAt(a, i) = 1
                 \/ BitAt(a, d + 1) = 1
        kept == [c \in 1..Len(a) |->
                   IF c < DigitOf(d + 1) THEN 0
                   ELSE IF c = DigitOf(d + 1) THEN a[c] - (a[c] % PlaceOf(d + 1))
                   ELSE a[c]]
        one == [c \in 1..DigitOf(d + 1) |->
                   IF c = DigitOf(d + 1) THEN PlaceOf(d + 1) ELSE 0]
    IN  IF a = <<>> THEN a
        ELSE IF d <= 0 THEN a
        ELSE IF up THEN BAdd(kept, one)
        ELSE kept

\* p / q scaled into [1, 2) by a power of two
RECURSIVE Scaled(_, _)
Scaled(p, q) ==
    IF p >= 2 * q THEN Scaled(p, 2 * q)
    ELSE IF p < q THEN Scaled(2 * p, q)
    ELSE <<p, q>>

\* the bits of the significand after the first are LowDigits whole digits
\* and TopBits bits in the digit of the first
LowDigits == (Precision - 1) \div Chunk

TopBits == (Precision - 1) % Chunk

\* the remainder that long division of p by q leaves after the top digit
\* and k more
RECURSIVE RemAfter(_, _, _)
RemAfter(p, q, k) ==
    IF k = 0 THEN (p * (2 ^ TopBits)) % q
    ELSE (RemAfter(p, q, k - 1) * Base) % q

\* the significand of the double nearest to p / q, for p and q positive:
\* the first Precision bits of p / q, and the rounding of what is left
Significand(p, q) ==
    Bind(Scaled(p, q), LAMBDA pq :
    Bind([c \in 1..(LowDigits + 1) |->
            IF c = LowDigits + 1 THEN (pq[1] * (2 ^ TopBits)) \div pq[2]
            ELSE (RemAfter(pq[1], pq[2], LowDigits - c) * Base) \div pq[2]],
         LAMBDA digits :
    Bind(RemAfter(pq[1], pq[2], LowDigits), LAMBDA r :
    IF 2 * r > pq[2] \/ (2 * r = pq[2] /\ digits[1] % 2 = 1)
    THEN BAdd(digits, <<1>>)
    ELSE digits)))

\* the e with p / q in [2^e, 2^(e + 1)), for p and q positive
RECURSIVE Exponent(_, _)
Exponent(p, q) ==
    IF p >= 2 * q THEN Exponent(p, 2 * q) + 1
    ELSE IF p < q THEN Exponent(2 * p, q) - 1
    ELSE 0

\* the carry out of digit c of a times a small m
RECURSIVE MulCarry(_, _, _)
MulCarry(a, m, c) ==
    IF c = 0 THEN 0 ELSE (Digit(a, c) * m + MulCarry(a, m, c - 1)) \div Base

\* a * 2^k
ShiftLeft(a, k) ==
    Zeros(k \div Chunk)
    \o Trim([c \in 1..(Len(a) + 1) |->
               (Digit(a, c) * (2 ^ (k % Chunk))
                  + MulCarry(a, 2 ^ (k % Chunk), c - 1)) % Base])

\* the double nearest to p / q, p >= 0, in units of 2^(lo - Precision + 1)
\* / Base
Double(p, q, lo) ==
    IF p = 0 THEN <<>>
    ELSE <<0>> \o ShiftLeft(Significand(p, q), Exponent(p, q) - lo)

\* add.reduce over the first k of the doubles xs: the first, then one
\* rounded sum for each of the others
RECURSIVE SumOfDoubles(_, _)
SumOfDoubles(xs, k) ==
    IF k = 1 THEN xs[1]
    ELSE Bind(SumOfDoubles(xs, k - 1), LAMBDA s :
         RoundToDouble(BAdd(s, xs[k]), FALSE))

\* the least exponent of the positive fractions in fs
LeastExponent(fs) ==
    Bind({Exponent(fs[i][1], fs[i][2]) : i \in {k \in 1..Len(fs) : fs[k][1] > 0}},
         LAMBDA es : CHOOSE e \in es : \A f \in es : e <= f)

\* what the mean of the doubles nearest to the fractions fs (pairs p, q
\* with p >= 0, not all 0), computed as sum / n with a rounding at every
\* step, differs from the double nearest to their exact mean mp / mq, in
\* half units in the last place of the latter
MeanResidue(fs, mp, mq) ==
    Bind(LeastExponent(Append(fs, <<mp, mq>>)), LAMBDA lo :
    Bind([i \in 1..Len(fs) |-> Double(fs[i][1], fs[i][2], lo)], LAMBDA xs :
    Bind(DivSmall(SumOfDoubles(xs, Len(xs)), Len(xs)), LAMBDA d :
    Bind(RoundToDouble(d[1], d[2] # 0), LAMBDA mean :
    Bind(Difference(mean, Double(mp, mq, lo)), LAMBDA diff :
    Sgn(diff)
    * (Abs(diff) \div (2 ^ (Exponent(mp, mq) - lo + Chunk - 1))))))))

(***************************************************************************)
(* numpy arrays: a 1-D array is a sequence, a 2-D array a sequence of      *)
(* rows.                                                                   *)
(***************************************************************************)
Rows(A) == Len(A)

Cols(A) == Len(A[1])

RECURSIVE RSum(_)
RSum(s) == IF s = <<>> THEN R(0) ELSE RAdd(s[1], RSum(Tail(s)))

Column(A, j) == [i \in 1..Rows(A) |-> A[i][j]]

Transpose(A) == [j \in 1..Cols(A) |-> Column(A, j)]

\* arr.mean(axis=0): the column sums divided by the number of rows.  The
\* value is the exact mean, and the residue is what the mean that the
\* doubles give, each sum and the division rounded, differs from the double
\* nearest to it.  Whole numbers sum to a whole number, which is a double,
\* and the division rounds it to the double nearest to the exact mean.
MeanOfSeq(s) ==
    Bind(RDiv(RSum(s), R(Len(s))), LAMBDA mean :
    IF \E i \in 1..Len(s) : ~IsFinite(s[i]) THEN mean
    ELSE IF \E i \in 1..Len(s) : s[i].m # 1 \/ s[i].ord # 0 \/ s[i].rnd # 0
         THEN Irr
    ELSE IF \A i \in 1..Len(s) : s[i].q = 1 THEN mean
    ELSE IF \E i, k \in 1..Len(s) : s[i].p < 0 /\ s[k].p > 0 THEN Irr
    ELSE [mean EXCEPT !.rnd =
            Sgn(mean.p) * MeanResidue([i \in 1..Len(s) |-> <<Abs(s[i].p), s[i].q>>],
                                      Abs(mean.p), mean.q)])

MeanAxis0(A) == [j \in 1..Cols(A) |-> MeanOfSeq(Column(A, j))]

\* a variant of StdAxis0: the sample standard deviation (ddof = 1), and the
\* population one where there is a single row
StdAxis0Sample(A) ==
    LET mu == MeanAxis0(A)
        dev(j) == [i \in 1..Rows(A) |->
                     LET d == RAbs(RSub(A[i][j], mu[j])) IN RMul(d, d)]
        n == IF Rows(A) > 1 THEN Rows(A) - 1 ELSE 1
    IN  [j \in 1..Cols(A) |-> RSqrt(RDiv(RSum(dev(j)), R(n)))]

\* arr.std(axis=0): sqrt(mean(abs(arr - arr.mean(axis=0)) ** 2)), ddof = 0
StdAxis0(A) ==
    LET mu == MeanAxis0(A)
        dev(j) == [i \in 1..Rows(A) |->
                     LET d == RAbs(RSub(A[i][j], mu[j])) IN RMul(d, d)]
    IN  [j \in 1..Cols(A) |-> RSqrt(RDiv(RSum(dev(j)), R(Rows(A))))]

\* a - v and a / v with the 1-D array v broadcast over the rows of a
SubRow(A, v) == [i \in 1..Rows(A) |-> [j \in 1..Cols(A) |-> RSub(A[i][j], v[j])]]

DivRow(A, v) == [i \in 1..Rows(A) |-> [j \in 1..Cols(A) |-> RDiv(A[i][j], v[j])]]

\* np.linalg.norm(A, axis=axis, keepdims=True): sqrt of the sum of squares
\* along the axis; the result keeps two dimensions, (1, K) or (N, 1)
Sq(s) == [i \in DOMAIN s |-> RMul(RAbs(s[i]), RAbs(s[i]))]

\* a variant of NormKeepdims: the norm along axis 0 whatever the axis
NormKeepdimsAxis0(A, axis) ==
    << [j \in 1..Cols(A) |-> RSqrt(RSum(Sq(Column(A, j))))] >>

NormKeepdims(A, axis) ==
    IF axis = 0
    THEN << [j \in 1..Cols(A) |-> RSqrt(RSum(Sq(Column(A, j))))] >>
    ELSE [i \in 1..Rows(A) |-> << RSqrt(RSum(Sq(A[i]))) >>]

\* np.where(B == 0) of a 2-D array: the index pairs of its zero entries
WhereZero2(B) ==
    {ij \in (1..Rows(B)) \X (1..Cols(B)) : IsZero(B[ij[1]][ij[2]])}

\* A[idx] = v for a tuple of index arrays idx (pairs of row and column)
StoreAt(A, idx, v) ==
    [i \in 1..Rows(A) |-> [j \in 1..Cols(A) |->
        IF <<i, j>> \in idx THEN v ELSE A[i][j]]]

\* a[idx] = v for a 1-D array a and an index array idx
StoreAt1(a, idx, v) == [j \in 1..Len(a) |-> IF j \in idx THEN v ELSE a[j]]

\* A[:, idx] = v
StoreCols(A, idx, v) ==
    [i \in 1..Rows(A) |-> [j \in 1..Cols(A) |->
        IF j \in idx THEN v ELSE A[i][j]]]

\* A / B with B of shape (1, K) or (N, 1) broadcast to the shape of A
DivBroadcast(A, B) ==
    [i \in 1..Rows(A) |-> [j \in 1..Cols(A) |->
        RDiv(A[i][j], B[IF Rows(B) = 1 THEN 1 ELSE i][IF Cols(B) = 1 THEN 1 ELSE j])]]

(***************************************************************************)
(* Records are written with their fields in the order in which the field   *)
(* names first occur in this module.                                       *)
(*                                                                         *)
(* The functions.  Each takes the heap and the addresses of its arguments  *)
(* and returns the heap it leaves, the address r of the array it returns   *)
(* and the exception exc it raised ("" for none).                          *)
(***************************************************************************)
Out(h, r) == [h |-> h, r |-> r, exc |-> ""]

Raise(h, e) == [h |-> h, r |-> 0, exc |-> e]

\* np.array(X): a copy of X in a new object
NpArray(h, x) == Append(h, h[x])

zscore(h, x) ==
    Bind(NpArray(h, x), LAMBDA h1 :
    Bind(Len(h1), LAMBDA arr :
    Bind(Append(h1, MeanAxis0(h1[arr])), LAMBDA h2 :
    Bind(Len(h2), LAMBDA avg :
    Bind(Append(h2, StdAxis0(h2[arr])), LAMBDA h3 :
    Bind(Len(h3), LAMBDA stdev :
    Bind({j \in 1..Len(h3[stdev]) : IsZero(h3[stdev][j])}, LAMBDA zero_items :
    Bind(IF zero_items # {}
         THEN [h3 EXCEPT ![avg] = StoreAt1(@, zero_items, R(0)),
                         ![stdev] = StoreAt1(@, zero_items, R(1))]
         ELSE h3, LAMBDA h4 :
    Bind(Append(h4, DivRow(SubRow(h4[arr], h4[avg]), h4[stdev])), LAMBDA h5 :
    Bind(Len(h5), LAMBDA zarr :
    Out([h5 EXCEPT ![zarr] = StoreCols(@, zero_items, R(0))], zarr)))))))))))

\* a variant of normalize that works on X itself: normed = np.asarray(X),
\* normed /= normal_base
normalizeInPlace(h, x, axis) ==
    Bind(NormKeepdims(h[x], axis), LAMBDA base :
    Bind(WhereZero2(base), LAMBDA zero_items :
    Bind(StoreAt(base, zero_items, R(1)), LAMBDA base1 :
    Out([h EXCEPT ![x] = StoreAt(DivBroadcast(@, base1), zero_items, R(0))], x))))

normalize(h, x, axis) ==
    Bind(NpArray(h, x), LAMBDA h1 :
    Bind(Len(h1), LAMBDA normed :
    Bind(Append(h1, NormKeepdims(h1[normed], axis)), LAMBDA h2 :
    Bind(Len(h2), LAMBDA normal_base :
    Bind(WhereZero2(h2[normal_base]), LAMBDA zero_items :
    Bind([h2 EXCEPT ![normal_base] = StoreAt(@, zero_items, R(1))], LAMBDA h3 :
    Bind(Append(h3, DivBroadcast(h3[normed], h3[normal_base])), LAMBDA h4 :
    Bind(Len(h4), LAMBDA normed2 :
    Out([h4 EXCEPT ![normed2] = StoreAt(@, zero_items, R(0))], normed2)))))))))

\* A @ B; the inner dimensions must agree
MatMul(A, B) ==
    [i \in 1..Rows(A) |-> [j \in 1..Cols(B) |->
        RSum([k \in 1..Cols(A) |-> RMul(A[i][k], B[k][j])])]]

\* a variant of DivScalar that guards the division: A / max(n, 1)
DivScalarGuarded(A, n) ==
    [i \in 1..Rows(A) |-> [j \in 1..Cols(A) |->
        RDiv(A[i][j], R(IF n < 1 THEN 1 ELSE n))]]

\* A / n for a Python integer n
DivScalar(A, n) == [i \in 1..Rows(A) |-> [j \in 1..Cols(A) |-> RDiv(A[i][j], R(n))]]

_compute_xcorr(h, x, y) ==
    Bind(zscore(h, x), LAMBDA zx :
    Bind(normalize(zx.h, zx.r, 0), LAMBDA nx :
    Bind(zscore(nx.h, y), LAMBDA zy :
    Bind(normalize(zy.h, zy.r, 0), LAMBDA ny :
    Bind(ny.h[nx.r], LAMBDA Xnz :
    Bind(ny.h[ny.r], LAMBDA Ynz :
    IF Rows(Ynz) # Rows(Xnz)
    THEN Raise(ny.h, "ValueError")
    ELSE Bind(Append(ny.h, MatMul(Transpose(Ynz), Xnz)), LAMBDA h1 :
         Bind(Append(h1, DivScalar(h1[Len(h1)], Rows(Xnz) - 1)), LAMBDA h2 :
         Out(h2, Len(h2))))))))))

\* np.unique(g): the distinct values of g in ascending order
RECURSIVE SortedSeq(_)
SortedSeq(S) ==
    IF S = {} THEN <<>>
    ELSE LET lo == CHOOSE v \in S : \A w \in S : v <= w
         IN  <<lo>> \o SortedSeq(S \ {lo})

\* a variant of Unique: the distinct values in the order of their first
\* appearance
RECURSIVE FirstSeen(_)
FirstSeen(g) ==
    IF g = <<>> THEN <<>>
    ELSE LET r == FirstSeen(SubSeq(g, 1, Len(g) - 1))
         IN  IF \E k \in 1..Len(r) : r[k] = g[Len(g)] THEN r
             ELSE Append(r, g[Len(g)])

Unique(g) == SortedSeq({g[i] : i \in 1..Len(g)})

\* a variant of EqMask: grouping >= grp
GeMask(g, grp) == [i \in 1..Len(g) |-> g[i] >= grp]

\* grouping == grp: the boolean array of the comparison
EqMask(g, grp) == [i \in 1..Len(g) |-> g[i] = grp]

\* A[mask] for a boolean array mask: the rows of A where mask is true
RECURSIVE SelectRows(_, _)
SelectRows(A, mask) ==
    IF A = <<>> THEN <<>>
    ELSE (IF mask[1] THEN <<A[1]>> ELSE <<>>) \o SelectRows(Tail(A), Tail(mask))

\* np.row_stack of the 2-D arrays at the addresses in blocks
RECURSIVE RowStack(_, _)
RowStack(h, blocks) ==
    IF blocks = <<>> THEN <<>> ELSE h[blocks[1]] \o RowStack(h, Tail(blocks))

\* the list comprehension of xcorr: one _compute_xcorr per group, in the
\* order of groups; boolean indexing raises when the mask is not as long
\* as the array has rows
RECURSIVE XcorrBlocks(_, _, _, _, _, _)
XcorrBlocks(h, x, y, g, groups, blocks) ==
    IF groups = <<>> THEN [h |-> h, exc |-> "", blocks |-> blocks]
    ELSE Bind(EqMask(h[g], groups[1]), LAMBDA mask :
         IF Len(mask) # Rows(h[x]) \/ Len(mask) # Rows(h[y])
         THEN [h |-> h, exc |-> "IndexError", blocks |-> blocks]
         ELSE Bind(Append(h, SelectRows(h[x], mask)), LAMBDA h1 :
              Bind(Append(h1, SelectRows(h1[y], mask)), LAMBDA h2 :
              Bind(_compute_xcorr(h2, Len(h1), Len(h2)), LAMBDA c :
              IF c.exc # ""
              THEN [h |-> c.h, exc |-> c.exc, blocks |-> blocks]
              ELSE XcorrBlocks(c.h, x, y, g, Tail(groups),
                               Append(blocks, c.r))))))

\* g = 0 stands for grouping=None
xcorr(h, x, y, g) ==
    IF g = 0 THEN _compute_xcorr(h, x, y)
    ELSE Bind(XcorrBlocks(h, x, y, g, Unique(h[g]), <<>>), LAMBDA b :
         IF b.exc # "" THEN Raise(b.h, b.exc)
         ELSE Bind(Append(b.h, RowStack(b.h, b.blocks)), LAMBDA h1 :
              Out(h1, Len(h1))))

\* (grouping == grp).astype(int)
AsInt(mask) == [i \in 1..Len(mask) |-> IF mask[i] THEN 1 ELSE 0]

\* a variant of ColumnStack: the columns taken last to first
ColumnStackReversed(cols) ==
    [i \in 1..Len(cols[1]) |-> [j \in 1..Len(cols) |-> cols[Len(cols) + 1 - j][i]]]

\* np.column_stack of a list of 1-D arrays of one length
ColumnStack(cols) ==
    [i \in 1..Len(cols[1]) |-> [j \in 1..Len(cols) |-> cols[j][i]]]

dummy_code(h, g) ==
    Bind(Append(h, Unique(h[g])), LAMBDA h1 :
    Bind(Len(h1), LAMBDA groups :
    Bind(Append(h1, ColumnStack([k \in 1..Len(h1[groups]) |->
                                   AsInt(EqMask(h1[g], h1[groups][k]))])),
         LAMBDA h2 :
    Out(h2, Len(h2)))))

RECURSIVE ISum(_)
ISum(s) == IF s = <<>> THEN 0 ELSE s[1] + ISum(Tail(s))

\* a variant of reverse_dummy_code: enumerate(Y.T), counting from 0
reverse_dummy_code0(h, y) ==
    Bind(Transpose(h[y]), LAMBDA YT :
    Bind(Append(h, [n \in 1..Len(YT) |->
                      [i \in 1..Len(YT[n]) |-> YT[n][i] * (n - 1)]]), LAMBDA h1 :
    Bind(Len(h1), LAMBDA stacked :
    Bind(Append(h1, [i \in 1..Cols(h1[stacked]) |->
                       ISum(Column(h1[stacked], i))]), LAMBDA h2 :
    Out(h2, Len(h2))))))

\* np.row_stack([grp * n for n, grp in enumerate(Y.T, 1)]).sum(0)
reverse_dummy_code(h, y) ==
    Bind(Transpose(h[y]), LAMBDA YT :
    Bind(Append(h, [n \in 1..Len(YT) |->
                      [i \in 1..Len(YT[n]) |-> YT[n][i] * n]]), LAMBDA h1 :
    Bind(Len(h1), LAMBDA stacked :
    Bind(Append(h1, [i \in 1..Cols(h1[stacked]) |->
                       ISum(Column(h1[stacked], i))]), LAMBDA h2 :
    Out(h2, Len(h2))))))

(***************************************************************************)
(* The caller.  It holds three arrays, X, Y and grouping, at the first     *)
(* three addresses of the heap, and the array its last call returned.      *)
(***************************************************************************)
aX == 1

aY == 2

aG == 3

aR == 4

NoRet == [exc |-> "", val |-> <<>>]

NoCall == [axis |-> 0, op |-> "none", args |-> <<>>]

NoAfter == [pre |-> <<>>, post |-> <<>>]

\* what the function sees: the caller's arrays and the last returned array
Caller == heap \o <<ret.val>>

\* one call: r is what the function, run on Caller, left behind
Call(op, args, axis, r) == \E res \in {r} :
    /\ heap' = SubSeq(res.h, 1, 3)
    /\ ret' = IF res.exc = "" THEN [exc |-> "", val |-> res.h[res.r]]
              ELSE [exc |-> res.exc, val |-> <<>>]
    /\ call' = [axis |-> axis, op |-> op, args |-> args]
    /\ after' = [pre |-> [k \in 1..Len(args) |-> Caller[args[k]]],
                 post |-> [k \in 1..Len(args) |-> res.h[args[k]]]]
    /\ UNCHANGED <<gens, nprandom, handles>>

CallZscore == Call("zscore", <<aX>>, 0, zscore(Caller, aX))

CallNormalize == \E axis \in {0, 1} :
    Call("normalize", <<aX>>, axis, normalize(Caller, aX, axis))

CallComputeXcorr ==
    Call("_compute_xcorr", <<aX, aY>>, 0, _compute_xcorr(Caller, aX, aY))

CallXcorrNone == Call("xcorr", <<aX, aY>>, 0, xcorr(Caller, aX, aY, 0))

CallXcorr == Call("xcorr", <<aX, aY, aG>>, 0, xcorr(Caller, aX, aY, aG))

CallDummyCode == Call("dummy_code", <<aG>>, 0, dummy_code(Caller, aG))

\* the caller passes the matrix its dummy_code call returned
CallReverseDummyCode ==
    /\ call.op = "dummy_code"
    /\ ret.exc = ""
    /\ Call("reverse_dummy_code", <<aR>>, 0, reverse_dummy_code(Caller, aR))

NextArr ==
    \/ CallZscore
    \/ CallNormalize
    \/ CallComputeXcorr
    \/ CallXcorrNone
    \/ CallXcorr
    \/ CallDummyCode
    \/ CallReverseDummyCode


(***************************************************************************)
(* Inputs.                                                                 *)
(***************************************************************************)
Vals == {0, 1, 2}

Tenths == {0, 1, 2, 10}

Bits == {0, 1}

Labels == {0, 1, 2}

TwoLabels == {3, 5}

\* the n x j matrices with entries from V
Matrices(n, j, V) == [1..n -> [1..j -> {R(v) : v \in V}]]

\* the n x j matrices with entries v / 10, v from Tenths
TenthMatrices(n, j) == [1..n -> [1..j -> {Mk(v, 10, 1) : v \in Tenths}]]

\* a fixed column of n rows and a fixed grouping of n rows, for the
\* arguments a specification does not vary
Ramp(n) == [i \in 1..n |-> <<R(i)>>]

Alternate(n) == [i \in 1..n |-> i % 2]

NoSeedState ==
    /\ gens = <<>>
    /\ nprandom = [st |-> 0, out |-> <<>>]
    /\ handles = <<>>

InitCommon ==
    /\ call = NoCall
    /\ ret = NoRet
    /\ after = NoAfter
    /\ NoSeedState

\* X varies over the matrices of one or two columns and at most MaxCells
\* entries
InitZ ==
    /\ \E n \in 1..MaxN : \E j \in {1, 2} : \E X \in Matrices(n, j, Vals) :
          /\ n * j <= MaxCells
          /\ heap = <<X, Ramp(n), Alternate(n)>>
    /\ InitCommon

\* X (n x 1) varies, Y (n x 2) is a rising and an alternating column, and
\* the grouping varies over two labels; one more grouping has a single
\* label and is one short of n
RampAlternate(n) == [i \in 1..n |-> <<R(i), R(i % 2)>>]

GSet(n) == [1..n -> TwoLabels] \cup (IF n > 1 THEN {[i \in 1..(n - 1) |-> 3]} ELSE {})

InitX ==
    /\ \E n \in 1..MaxN : \E X \in Matrices(n, 1, Vals) : \E g \in GSet(n) :
          heap = <<X, RampAlternate(n), g>>
    /\ InitCommon

\* grouping varies over the label vectors of length up to MaxLen
InitD ==
    /\ \E n \in 1..MaxLen : \E g \in [1..n -> Labels] :
          heap = <<Ramp(n), Ramp(n), g>>
    /\ InitCommon

\* X varies over the matrices of one or two columns and at most
\* MaxTenthCells entries, each 0, 0.1, 0.2 or 1
InitT ==
    /\ \E n \in 1..MaxN : \E j \in {1, 2} : \E X \in TenthMatrices(n, j) :
          /\ n * j <= MaxTenthCells
          /\ heap = <<X, Ramp(n), Alternate(n)>>
    /\ InitCommon

SpecZ == InitZ /\ [][NextArr]_vars

SpecT == InitT /\ [][NextArr]_vars

SpecX == InitX /\ [][NextArr]_vars

SpecD == InitD /\ [][NextArr]_vars


(***************************************************************************)
(* get_seed.  gens holds the RandomState instances that exist, an instance *)
(* is known by its index; nprandom is the generator behind the np.random   *)
(* module.  A generator is its state st and the outputs out it has         *)
(* produced.  The Mersenne Twister is abstracted to a congruential         *)
(* generator on 16 states: all that matters here is that the state after   *)
(* construction is a function of the seed, and that a draw is a function   *)
(* of the state of the one generator it is made on.  handles lists the     *)
(* get_seed calls made: the argument and what came back.                   *)
(***************************************************************************)
\* np.random.RandomState(seed) accepts 0 <= seed <= 2**32 - 1 and raises
\* ValueError otherwise; every integer of the model is below 2**32
SeedOk(s) == s >= 0

RandomStateInit(s) == [st |-> s % 16, out |-> <<>>]

RngDraw(g) == [st |-> (5 * g.st + 3) % 16, out |-> Append(g.out, g.st \div 2)]

\* the first n outputs of a generator constructed from seed s
RECURSIVE DrawN(_, _)
DrawN(g, n) == IF n = 0 THEN g ELSE DrawN(RngDraw(g), n - 1)

NoneArg == [v |-> 0, t |-> "none"]

IntArg(s) == [v |-> s, t |-> "int"]

InstArg(i) == [v |-> i, t |-> "inst"]

OtherArg == [v |-> 0, t |-> "other"]

Instance(i) == [k |-> "inst", id |-> i]

Module == [k |-> "module", id |-> 0]

Raised == [k |-> "raise", id |-> 0]

\* a variant of get_seed that tests for int only: an instance falls
\* through to np.random
get_seedIntOnly(G, seed) ==
    IF seed.t # "none" /\ seed.t = "int"
    THEN IF SeedOk(seed.v)
         THEN [gens |-> Append(G, RandomStateInit(seed.v)),
               res |-> Instance(Len(G) + 1)]
         ELSE [gens |-> G, res |-> Raised]
    ELSE [gens |-> G, res |-> Module]

\* a variant of get_seed that keeps the instance it constructed for a seed
\* and hands it out again when the seed comes again
get_seedCached(G, seed) ==
    IF seed.t # "none" /\ seed.t = "int"
    THEN IF ~SeedOk(seed.v) THEN [gens |-> G, res |-> Raised]
         ELSE IF \E i \in 1..Len(G) : G[i] = DrawN(RandomStateInit(seed.v), Len(G[i].out))
         THEN [gens |-> G,
               res |-> Instance(CHOOSE i \in 1..Len(G) :
                          G[i] = DrawN(RandomStateInit(seed.v), Len(G[i].out)))]
         ELSE [gens |-> Append(G, RandomStateInit(seed.v)),
               res |-> Instance(Len(G) + 1)]
    ELSE IF seed.t # "none" /\ seed.t = "inst"
    THEN [gens |-> G, res |-> Instance(seed.v)]
    ELSE [gens |-> G, res |-> Module]

\* get_seed on the instances G: the instances it leaves and what it returns
get_seed(G, seed) ==
    IF seed.t # "none" /\ seed.t = "int"
    THEN IF SeedOk(seed.v)
         THEN [gens |-> Append(G, RandomStateInit(seed.v)),
               res |-> Instance(Len(G) + 1)]
         ELSE [gens |-> G, res |-> Raised]
    ELSE IF seed.t # "none" /\ seed.t = "inst"
    THEN [gens |-> G, res |-> Instance(seed.v)]
    ELSE [gens |-> G, res |-> Module]

Seeds == {-1, 0, 42}

Draws == ISum([i \in 1..Len(gens) |-> Len(gens[i].out)]) + Len(nprandom.out)

GetSeed(seed) ==
    /\ Len(handles) < MaxCalls
    /\ \E r \in {get_seed(gens, seed)} :
         /\ gens' = r.gens
         /\ handles' = Append(handles, [res |-> r.res, arg |-> seed])
    /\ UNCHANGED <<heap, call, ret, after, nprandom>>

GetSeedInt == \E s \in Seeds : GetSeed(IntArg(s))

GetSeedInstance == \E i \in 1..Len(gens) : GetSeed(InstArg(i))

GetSeedNone == GetSeed(NoneArg)

GetSeedOther == GetSeed(OtherArg)

\* a holder of instance i draws from it
DrawInstance ==
    /\ Draws < MaxDraws
    /\ \E i \in 1..Len(gens) : gens' = [gens EXCEPT ![i] = RngDraw(@)]
    /\ UNCHANGED <<heap, call, ret, after, nprandom, handles>>

\* somebody draws from np.random
DrawModule ==
    /\ Draws < MaxDraws
    /\ nprandom' = RngDraw(nprandom)
    /\ UNCHANGED <<heap, call, ret, after, gens, handles>>

NextSeed ==
    \/ GetSeedInt
    \/ GetSeedInstance
    \/ GetSeedNone
    \/ GetSeedOther
    \/ DrawInstance
    \/ DrawModule

\* the state of np.random is whatever the process seeded it with
InitSeed ==
    /\ heap = <<Ramp(1), Ramp(1), Alternate(1)>>
    /\ call = NoCall
    /\ ret = NoRet
    /\ after = NoAfter
    /\ gens = <<>>
    /\ \E s \in {3, 10} : nprandom = [st |-> s, out |-> <<>>]
    /\ handles = <<>>

SpecSeed == InitSeed /\ [][NextSeed]_vars

\* every operation on every input
Init == InitZ \/ InitX \/ InitD \/ InitSeed

Next == NextArr \/ NextSeed

Spec == Init /\ [][Next]_vars


(***************************************************************************)
(* Properties.  The caller's matrices hold integers, so the statements     *)
(* about z-scores and norms are made in integer arithmetic, with the       *)
(* square roots squared away.                                              *)
(***************************************************************************)
X == heap[aX]

Y == heap[aY]

grouping == heap[aG]

Returned(op) == call.op = op /\ ret.exc = ""

SameShape(A, B) ==
    /\ Rows(A) = Rows(B)
    /\ \A i \in 1..Rows(A) : Len(A[i]) = Len(B[i])

\* the number a is s / sqrt(d) * sqrt(n) for integers s, n, d > 0:
\* a has the sign of s and a^2 d = s^2 n
IsRatioRoot(a, s, n, d) ==
    /\ IsFinite(a)
    /\ a.ord = 0 /\ a.rnd = 0
    /\ Sgn(a.p) = Sgn(s)
    /\ a.p * a.p * a.m * d = s * s * n * a.q * a.q

\* ten times the entry a of a matrix of tenths
TimesTen(a) == a.p * (10 \div a.q)

\* 10 (N x[i] - sum(x)) for column j of A: 10 N times the deviation of
\* entry i from the column mean
Dev(A, i, j) ==
    Rows(A) * TimesTen(A[i][j]) - ISum([k \in 1..Rows(A) |-> TimesTen(A[k][j])])

SumSqDev(A, j) == ISum([i \in 1..Rows(A) |-> Dev(A, i, j) * Dev(A, i, j)])

ConstantColumn(A, j) == \A i \in 1..Rows(A) : A[i][j] = A[1][j]

Tenth == Mk(1, 10, 1)

\* whether the mean of column j of A as the doubles give it is above (1),
\* at (0) or below (-1) the double nearest to the exact mean
MeanExcess(A, j) == Sgn(MeanOfSeq(Column(A, j)).rnd)

\* a is 0 up to rounding: 0, or of the order of the last place
IsRounding(a) == IsFinite(a) /\ (a.p = 0 \/ a.ord >= 1)

Slice(A, axis, i, j) ==
    IF axis = 0 THEN [k \in 1..Rows(A) |-> A[k][j].p]
    ELSE [k \in 1..Cols(A) |-> A[i][k].p]

SumSq(s) == ISum([k \in 1..Len(s) |-> s[k] * s[k]])

\* C7: normalize(X, axis), axis 0 or 1, raises nothing and returns a matrix
\* of the shape of X in which a slice of norm zero is 0 in every position
\* and every other slice is the slice of X divided by its own L2 norm.
C7_Normalize ==
    call.op = "normalize" =>
       /\ ret.exc = ""
       /\ SameShape(ret.val, X)
       /\ \A i \in 1..Rows(X) : \A j \in 1..Cols(X) :
             LET n2 == SumSq(Slice(X, call.axis, i, j))
             IN  IF n2 = 0
                 THEN ret.val[i][j] = R(0)
                 ELSE IsRatioRoot(ret.val[i][j], X[i][j].p, 1, n2)

C7_Witness ==
    /\ Returned("normalize")
    /\ call.axis = 1
    /\ Cols(X) = 2
    /\ \E i \in 1..Rows(X) : SumSq(Slice(X, 1, i, 1)) = 0
    /\ \E i \in 1..Rows(X) : ret.val[i][1].m # 1

\* C10: whatever the call, the arrays passed to it hold after the call the
\* values they held before it.
C10_ArgumentsUntouched ==
    \A k \in 1..Len(call.args) : after.post[k] = after.pre[k]

C10_Witness ==
    /\ Returned("zscore")
    /\ \E j \in 1..Cols(X) : ConstantColumn(X, j) /\ X[1][j] # R(0)
    /\ after.post = after.pre
    /\ after.pre = <<X>>


LabelSet(g) == {g[i] : i \in 1..Len(g)}

\* the n-th smallest of the distinct labels of g
NthLabel(g, n) ==
    CHOOSE v \in LabelSet(g) : Cardinality({w \in LabelSet(g) : w < v}) = n - 1

Members(g, v) == {i \in 1..Len(g) : g[i] = v}

\* the rows of A with index in I, in the order they have in A
RowsAt(A, I) ==
    [k \in 1..Cardinality(I) |->
        A[CHOOSE i \in I : Cardinality({j \in I : j < i}) = k - 1]]

\* the matrix _compute_xcorr returns for A and B
XcorrOf(A, B) == Bind(_compute_xcorr(<<A, B>>, 1, 2), LAMBDA c : c.h[c.r])

GroupedCall ==
    /\ call.op = "xcorr"
    /\ Len(call.args) = 3
    /\ Len(grouping) = Rows(X)
    /\ Rows(Y) = Rows(X)

\* block n of the stacked result: rows (n - 1) K + 1 .. n K
Block(n) == [k \in 1..Cols(Y) |-> ret.val[(n - 1) * Cols(Y) + k]]

\* C1: xcorr(X, Y, grouping) is the stack, in ascending order of the
\* labels, of _compute_xcorr of each group's own rows of X and Y, of shape
\* (K G, J); without grouping it is _compute_xcorr(X, Y), of shape (K, J).
C1_XcorrStacksGroups ==
    /\ GroupedCall =>
         /\ ret.exc = ""
         /\ Rows(ret.val) = Cols(Y) * Cardinality(LabelSet(grouping))
         /\ \A i \in 1..Rows(ret.val) : Len(ret.val[i]) = Cols(X)
         /\ \A n \in 1..Cardinality(LabelSet(grouping)) :
               \E I \in {Members(grouping, NthLabel(grouping, n))} :
                  Block(n) = XcorrOf(RowsAt(X, I), RowsAt(Y, I))
    /\ (call.op = "xcorr" /\ Len(call.args) = 2 /\ Rows(Y) = Rows(X)) =>
         /\ ret.exc = ""
         /\ ret.val = XcorrOf(X, Y)
         /\ Rows(ret.val) = Cols(Y)
         /\ \A i \in 1..Rows(ret.val) : Len(ret.val[i]) = Cols(X)

\* two groups, the first label of the grouping is the larger one, and the
\* blocks of the two groups differ
C1_Witness ==
    /\ GroupedCall
    /\ ret.exc = ""
    /\ Cardinality(LabelSet(grouping)) = 2
    /\ grouping[1] = NthLabel(grouping, 2)
    /\ Block(1) # Block(2)
    /\ \E k \in 1..Cols(Y) : IsFinite(Block(1)[k][1]) /\ ~IsZero(Block(1)[k][1])

AllEntries(B, P(_)) == \A k \in 1..Len(B) : \A j \in 1..Len(B[k]) : P(B[k][j])

\* C2 as claimed: xcorr(X, Y, grouping) raises whenever a group has at most
\* one row.
C2_SmallGroupRaises ==
    (/\ call.op = "xcorr"
     /\ Len(call.args) = 3
     /\ \E v \in LabelSet(grouping) : Cardinality(Members(grouping, v)) <= 1)
       => ret.exc # ""

\* C2, amended: with matching row counts xcorr(X, Y, grouping) raises
\* nothing, whatever the sizes of the groups; the block of a group of one
\* row is NaN in every entry (0 / 0), and the block of a group of two or
\* more rows is finite in every entry.
C2_SmallGroupIsNaN ==
    GroupedCall =>
       /\ ret.exc = ""
       /\ \A n \in 1..Cardinality(LabelSet(grouping)) :
             IF Cardinality(Members(grouping, NthLabel(grouping, n))) = 1
             THEN AllEntries(Block(n), LAMBDA a : a = NaN)
             ELSE AllEntries(Block(n), LAMBDA a : IsFinite(a))

C2_Witness ==
    /\ GroupedCall
    /\ ret.exc = ""
    /\ Cardinality(LabelSet(grouping)) = 2
    /\ Cardinality(Members(grouping, NthLabel(grouping, 1))) = 1
    /\ AllEntries(Block(1), LAMBDA a : a = NaN)
    /\ \E k \in 1..Cols(Y) : ~IsZero(Block(2)[k][1])


\* the state after dummy_code(grouping) returned
Coded == Returned("dummy_code")

\* the state after reverse_dummy_code returned, called on what
\* dummy_code(grouping) returned
Decoded == Returned("reverse_dummy_code")

\* the 1-based rank of label v among the distinct labels of g
Rank(g, v) == Cardinality({w \in LabelSet(g) : w <= v})

\* C3: reverse_dummy_code(dummy_code(g)) has the length of g and holds at i
\* the rank (1..G) of g[i] among the distinct labels of g in ascending
\* order; two entries are equal exactly when the labels were.
C3_RoundTripIsRank ==
    Decoded =>
       /\ Len(ret.val) = Len(grouping)
       /\ \A i \in 1..Len(grouping) : ret.val[i] = Rank(grouping, grouping[i])
       /\ \A i, j \in 1..Len(grouping) :
             (ret.val[i] = ret.val[j]) <=> (grouping[i] = grouping[j])

\* a grouping whose labels are not their own ranks: they are not recovered
C3_Witness ==
    /\ Decoded
    /\ Cardinality(LabelSet(grouping)) = 2
    /\ ret.val # grouping
    /\ \E i \in 1..Len(grouping) : ret.val[i] = 2 /\ grouping[i] = 2
    /\ \E i \in 1..Len(grouping) : ret.val[i] = 1 /\ grouping[i] = 0

\* C4: dummy_code(g) is an N x G matrix of 0 and 1 whose entry (i, n) is 1
\* exactly when g[i] is the n-th smallest label; every row holds exactly
\* one 1 and every column at least one.
C4_DummyCode ==
    Coded =>
       /\ Rows(ret.val) = Len(grouping)
       /\ \A i \in 1..Rows(ret.val) :
             /\ Len(ret.val[i]) = Cardinality(LabelSet(grouping))
             /\ \A n \in 1..Len(ret.val[i]) :
                   ret.val[i][n] = (IF grouping[i] = NthLabel(grouping, n) THEN 1 ELSE 0)
             /\ ISum(ret.val[i]) = 1
       /\ \A n \in 1..Cardinality(LabelSet(grouping)) :
             \E i \in 1..Rows(ret.val) : ret.val[i][n] = 1

C4_Witness ==
    /\ Coded
    /\ Cardinality(LabelSet(grouping)) = 3
    /\ Len(grouping) > 3
    /\ grouping[1] = 2

Example == <<0, 0, 1, 2, 1>>

\* C5 as claimed: dummy_code([0,0,1,2,1]) has shape (5, 3), row sums 1,
\* column [1,1,0,0,0] for label 0 and column [0,0,0,0,1] for label 1.
C5_ExampleAsClaimed ==
    (Coded /\ grouping = Example) =>
       /\ Rows(ret.val) = 5
       /\ \A i \in 1..5 : Len(ret.val[i]) = 3 /\ ISum(ret.val[i]) = 1
       /\ Column(ret.val, 1) = <<1, 1, 0, 0, 0>>
       /\ Column(ret.val, 2) = <<0, 0, 0, 0, 1>>

\* C5, amended: dummy_code([0,0,1,2,1]) has shape (5, 3), columns in the
\* order of the labels 0, 1, 2, row sums 1, column [1,1,0,0,0] for label 0
\* and column [0,0,1,0,1] for label 1.
C5_Example ==
    (Coded /\ grouping = Example) =>
       /\ Rows(ret.val) = 5
       /\ \A i \in 1..5 : Len(ret.val[i]) = 3 /\ ISum(ret.val[i]) = 1
       /\ Column(ret.val, 1) = <<1, 1, 0, 0, 0>>
       /\ Column(ret.val, 2) = <<0, 0, 1, 0, 1>>
       /\ Column(ret.val, 3) = <<0, 0, 0, 1, 0>>

C5_Witness == Coded /\ grouping = Example /\ Rows(ret.val) = 5


Last(q) == q[Len(q)]

\* C8 as claimed: get_seed never raises; an integer gives an instance, an
\* instance gives that instance, anything else the np.random module.
C8_ThreeCasesNeverRaises ==
    \A k \in 1..Len(handles) :
       LET e == handles[k]
       IN  /\ e.res.k # "raise"
           /\ e.arg.t = "int" => e.res.k = "inst"
           /\ e.arg.t = "inst" => e.res = Instance(e.arg.v)
           /\ e.arg.t \in {"none", "other"} => e.res = Module

\* C8, amended: get_seed raises (ValueError, from the constructor) for an
\* integer outside 0 .. 2**32 - 1, and nothing is constructed; for an
\* integer in that range it returns an instance that did not exist before,
\* in the state that seed gives, and leaves all others alone; for an
\* instance it returns that instance and changes no state; for None or a
\* value of another type it returns the np.random module and changes no
\* state.
C8_GetSeedCases ==
    [][handles' # handles =>
         LET e == Last(handles')
         IN  /\ (e.arg.t = "int" /\ e.arg.v < 0) =>
                   e.res = Raised /\ gens' = gens
             /\ (e.arg.t = "int" /\ e.arg.v >= 0) =>
                   /\ e.res = Instance(Len(gens) + 1)
                   /\ Len(gens') = Len(gens) + 1
                   /\ SubSeq(gens', 1, Len(gens)) = gens
                   /\ Last(gens') = [st |-> e.arg.v % 16, out |-> <<>>]
             /\ e.arg.t = "inst" =>
                   e.res = Instance(e.arg.v) /\ gens' = gens
             /\ e.arg.t \in {"none", "other"} =>
                   e.res = Module /\ gens' = gens
             /\ nprandom' = nprandom]_vars

\* every kind of argument has been passed, the instance after it was drawn
\* from
C8_Witness ==
    /\ Len(handles) = 4
    /\ handles[1] = [res |-> Instance(1), arg |-> IntArg(0)]
    /\ handles[2] = [res |-> Instance(1), arg |-> InstArg(1)]
    /\ handles[3].arg = IntArg(-1)
    /\ handles[4] = [res |-> Module, arg |-> OtherArg]
    /\ Len(gens[1].out) = 2

IntHandles == {k \in 1..Len(handles) : handles[k].arg.t = "int" /\ handles[k].arg.v >= 0}

\* C9: two get_seed calls with one integer s return two distinct
\* instances, and what each instance has produced is the beginning of the
\* one sequence s determines, whatever was drawn from any other generator
\* in between.
C9_SeededStreamsIndependent ==
    \A k \in IntHandles :
       /\ handles[k].res.k = "inst"
       /\ \A l \in IntHandles : l # k => handles[l].res.id # handles[k].res.id
       /\ \E g \in {gens[handles[k].res.id]} :
             g = DrawN([st |-> handles[k].arg.v % 16, out |-> <<>>], Len(g.out))

\* two instances of seed 42, each drawn from once, and np.random drawn
\* from as well
C9_Witness ==
    /\ Len(handles) >= 2
    /\ handles[1].arg = IntArg(42)
    /\ handles[2].arg = IntArg(42)
    /\ Len(gens[1].out) = 1
    /\ gens[2].out = gens[1].out
    /\ Len(nprandom.out) = 1

=============================================================================
